---------------------------- MODULE Spec2Model ----------------------------
(***************************************************************************)
(* Model of notion_fund_daily_view.py: one synchronous pass               *)
(* (update_all_holdings_profits) over a holdings table, followed by the   *)
(* upsert of the daily aggregate row and the reconciliation of its        *)
(* relation field with the trades table.  The remote workspace (three     *)
(* tables behind notion_request) is part of the state; every remote call  *)
(* either succeeds or raises.                                             *)
(*                                                                         *)
(* Numbers are integers in thousandths (1.005 is 1005), so that           *)
(* round_decimal(.., 2) is a real rounding to multiples of 10.            *)
(* A date is a day number.  A title is a sequence of tokens: AT stands    *)
(* for the character '@', a positive token d for the ISO text of day d,   *)
(* a negative token for text that is no ISO date.                         *)
(***************************************************************************)
EXTENDS Integers, Sequences, FiniteSets, TLC

\* ------------------------------------------------------------------ bounds

\* Longest holdings table.
MaxHoldings == 3
\* Number of trade rows in the trades table.
MaxTrades == 3
\* Runs of the script in one behaviour.
MaxRuns == 2
\* The day of the first run (the 7-day window needs days before it).
FirstDay == 8

\* ------------------------------------------------- program constants

\* "page_size": 100 of the three table queries, scaled down to 2 so that a
\* table longer than one page fits the bounds.
HOLDINGS_PAGE_SIZE == 2
TRADES_PAGE_SIZE == 2
WEEK_PAGE_SIZE == 2
\* "page_size": 1 of the two title-equality queries on the daily table.
TITLE_PAGE_SIZE == 1
\* timedelta(days=6): the window of the weekly pass.
WEEK_DAYS == 6
\* The token of '@' in a title.
AT == 0

\* ------------------------------------------------------- small helpers

None == {}
Some(v) == {v}
TheValue(o) == CHOOSE v \in o : TRUE

Abs(v) == IF v < 0 THEN -v ELSE v
Min(a, b) == IF a < b THEN a ELSE b

RECURSIVE SumSeq(_)
SumSeq(s) == IF s = <<>> THEN 0 ELSE Head(s) + SumSeq(Tail(s))

\* The first n elements of a sequence.
Take(s, n) == SubSeq(s, 1, Min(n, Len(s)))

\* ------------------------------------------------------ Field Extractor

\* A property value of the remote API: its type tag, the inner type of a
\* formula or rollup, and the number it carries (None for null).
NumberProp(v) == [type |-> "number", inner |-> "", number |-> Some(v)]
NullNumberProp == [type |-> "number", inner |-> "", number |-> None]
FormulaProp(v) == [type |-> "formula", inner |-> "number", number |-> Some(v)]
FormulaStringProp == [type |-> "formula", inner |-> "string", number |-> None]
RollupProp(v) == [type |-> "rollup", inner |-> "number", number |-> Some(v)]
RichTextProp == [type |-> "rich_text", inner |-> "", number |-> None]
AbsentProp == [type |-> "", inner |-> "", number |-> None]

get_prop_number(prop) ==
    IF prop.type = "" THEN None
    ELSE IF prop.type = "number" THEN prop.number
    ELSE IF prop.type = "formula" /\ prop.inner = "number" THEN prop.number
    ELSE IF prop.type = "rollup" /\ prop.inner = "number" THEN prop.number
    ELSE None

safe_float(value) == IF value = None THEN 0 ELSE TheValue(value)

\* Decimal.quantize(.., ROUND_HALF_UP) to 2 places: to the nearest multiple of
\* 10 thousandths, a tie going away from zero.
round_decimal(value) ==
    LET q == (Abs(value) + 5) \div 10
    IN  IF value < 0 THEN -(10 * q) ELSE 10 * q

\* ---------------------------------------------------------------- titles

\* f"@{today}"
TitleOf(d) == <<AT, d>>
\* title.startswith('@')
StartsWithAt(t) == Len(t) > 0 /\ t[1] = AT
\* title.replace('@', '')
StripAt(t) == SelectSeq(t, LAMBDA x : x # AT)
\* datetime.fromisoformat(..) succeeds
IsIsoDate(s) == Len(s) = 1 /\ s[1] > 0
\* datetime.fromisoformat(..).date()
DateOf(s) == s[1]


\* ------------------------------------------------------------ the state

VARIABLES
    DAILY_DATA_DB_ID,       \* TRUE when the environment sets the daily table id
    TRADES_DB_ID,           \* TRUE when the environment sets the trades table id
    holdingsTable,          \* remote: the rows of the holdings table, in order
    dailyTable,             \* remote: the rows of the daily table; a row's id is its index
    tradeDate,              \* remote: trade row id -> its date
    today,                  \* the date of datetime.now(SG_TZ)
    runs,                   \* runs of the script started so far
    pc,                     \* position of the run
    cursor,                 \* list_holdings_pages: cursor (0 is None)
    pages,                  \* list_holdings_pages: pages
    idx,                    \* update_all_holdings_profits: index of the next holding
    summary,                \* update_all_holdings_profits: summary
    updated,                \* update_all_holdings_profits: updated
    failed,                 \* update_all_holdings_profits: failed
    previous_total_profit,  \* update_all_holdings_profits: previous_total_profit
    existing,               \* create_or_update_daily_data: existing (ids)
    rel,                    \* update_daily_trades_relation: its arguments and locals
    week_records,           \* update_week_trades_relations: records still to visit
    reqs,                   \* history: the remote calls of this run, in order
    relLog,                 \* history: the reconciliations completed in this run
    upsertLog               \* history: the daily upserts completed, over all runs

vars == <<DAILY_DATA_DB_ID, TRADES_DB_ID, holdingsTable, dailyTable, tradeDate,
          today, runs, pc, cursor, pages, idx, summary, updated, failed,
          previous_total_profit, existing, rel, week_records, reqs, relLog,
          upsertLog>>

envVars == <<DAILY_DATA_DB_ID, TRADES_DB_ID, holdingsTable, tradeDate>>
fetchVars == <<cursor, pages>>
loopVars == <<idx, summary, updated, failed>>

TradeIds == 1 .. MaxTrades

\* ------------------------------------------------------ the remote side

\* One remote call as notion_request sees it: method, the path's table or
\* page, the argument that selects (cursor, title day or page id), what the
\* body writes, and whether the response was ok; and the operation that
\* issued it, with the number of the call for update_daily_trades_relation.
Request(op, call, method, path, arg, body, ok) ==
    [op |-> op, call |-> call, method |-> method, path |-> path, arg |-> arg,
     body |-> body, ok |-> ok]

\* The response to a query of the holdings table from offset `start`.
HoldingsBatch(start) ==
    SubSeq(holdingsTable, start + 1, Min(start + HOLDINGS_PAGE_SIZE, Len(holdingsTable)))
HoldingsHasMore(start) == start + HOLDINGS_PAGE_SIZE < Len(holdingsTable)
HoldingsNextCursor(start) ==
    IF HoldingsHasMore(start) THEN start + HOLDINGS_PAGE_SIZE ELSE 0

\* The row ids 1 .. n of a table, in table order.
RowIds(n) == [i \in 1 .. n |-> i]

\* Query of the daily table, filter title equals `title`, page_size 1.
DailyQueryTitle(title) ==
    Take(SelectSeq(RowIds(Len(dailyTable)), LAMBDA i : dailyTable[i].title = title),
         TITLE_PAGE_SIZE)

\* Query of the daily table, filter title starts_with "@", one page.
DailyQueryStartsWithAt ==
    Take(SelectSeq(RowIds(Len(dailyTable)), LAMBDA i : StartsWithAt(dailyTable[i].title)),
         WEEK_PAGE_SIZE)

\* Query of the trades table, filter date equals `d`, one page.
TradesQueryDate(d) ==
    Take(SelectSeq(RowIds(MaxTrades), LAMBDA t : tradeDate[t] = d), TRADES_PAGE_SIZE)

\* Every trade row of the table dated `d`.
AllTradesOn(d) == {t \in TradeIds : tradeDate[t] = d}

SeqToSet(s) == {s[i] : i \in 1 .. Len(s)}


\* ---------------------------------------------------- Profit Calculator

\* A holding row as the holdings query returns it.  properties_ok is FALSE
\* for a payload whose "properties" is no mapping, so that reading a
\* property raises.
Holding(ok, quantity, cost, daily, holdingp, gsz, dwjz, gszzl) ==
    [properties_ok |-> ok, quantity |-> quantity, cost |-> cost, daily |-> daily,
     holdingp |-> holdingp, gsz |-> gsz, dwjz |-> dwjz, gszzl |-> gszzl]

\* calculate_fund_profits raises on this row.
CalculationRaises(holding) == ~holding.properties_ok

\* current_price of calculate_fund_profits (computed, then not used).
current_price(holding) ==
    LET gsz == safe_float(get_prop_number(holding.gsz))
    IN  IF gsz <= 0 THEN safe_float(get_prop_number(holding.dwjz)) ELSE gsz

\* quantity of calculate_fund_profits.
quantity(holding) == safe_float(get_prop_number(holding.quantity))

\* Mutant: the quantity check is missing.
calculate_fund_profits_NoQuantityCheck(holding) ==
    [total_cost |-> round_decimal(safe_float(get_prop_number(holding.cost))),
     daily_profit |-> round_decimal(safe_float(get_prop_number(holding.daily))),
     holding_profit |-> round_decimal(safe_float(get_prop_number(holding.holdingp)))]

\* Mutant: the profits are derived from price, quantity and change rate
\* instead of being read from the formula fields.
calculate_fund_profits_Derived(holding) ==
    LET total_cost == safe_float(get_prop_number(holding.cost))
        market_value == current_price(holding) * quantity(holding)
        rate == safe_float(get_prop_number(holding.gszzl))
    IN  IF quantity(holding) <= 0
        THEN [total_cost |-> 0, daily_profit |-> 0, holding_profit |-> 0]
        ELSE [total_cost |-> round_decimal(total_cost),
              daily_profit |-> round_decimal((market_value * rate) \div 100),
              holding_profit |-> round_decimal(market_value - total_cost)]

\* calculate_fund_profits, without the code and name it also returns.
calculate_fund_profits(holding) ==
    LET daily_profit == safe_float(get_prop_number(holding.daily))
        holding_profit == safe_float(get_prop_number(holding.holdingp))
        total_cost == safe_float(get_prop_number(holding.cost))
    IN  IF quantity(holding) <= 0
        THEN [total_cost |-> 0, daily_profit |-> 0, holding_profit |-> 0]
        ELSE [total_cost |-> round_decimal(total_cost),
              daily_profit |-> round_decimal(daily_profit),
              holding_profit |-> round_decimal(holding_profit)]

ZeroSummary == [total_cost |-> 0, total_daily_profit |-> 0, total_holding_profit |-> 0]

\* ------------------------------------------------------------ daily rows

DailyRow(title, daily_profit, total_cost, total_profit, relation) ==
    [title |-> title, daily_profit |-> daily_profit, total_cost |-> total_cost,
     total_profit |-> total_profit, relation |-> relation]

\* props of create_or_update_daily_data.
UpsertProps(date_str, daily_profit, total_cost, prev) ==
    [title |-> date_str, daily_profit |-> NumberProp(daily_profit),
     total_cost |-> NumberProp(total_cost),
     total_profit |-> NumberProp(prev + daily_profit)]

\* PATCH /pages/{page_id} with props: the four fields are overwritten.
PatchedRow(row, props) ==
    [row EXCEPT !.title = props.title, !.daily_profit = props.daily_profit,
                !.total_cost = props.total_cost, !.total_profit = props.total_profit]

\* POST /pages with props: a new row, with no links.
CreatedRow(props) ==
    DailyRow(props.title, props.daily_profit, props.total_cost, props.total_profit, {})

\* Mutant: the upsert appends a row whether or not one exists.
DailyAfterUpsert_AlwaysCreate(ex, props) == Append(dailyTable, CreatedRow(props))

\* The daily table after the write of create_or_update_daily_data.
DailyAfterUpsert(ex, props) ==
    IF ex # <<>>
    THEN [dailyTable EXCEPT ![ex[1]] = PatchedRow(dailyTable[ex[1]], props)]
    ELSE Append(dailyTable, CreatedRow(props))

\* page_id after the write.
UpsertPageId(ex) == IF ex # <<>> THEN ex[1] ELSE Len(dailyTable) + 1

\* The number of rows titled `title`.
TitleCount(table, title) == Cardinality({i \in 1 .. Len(table) : table[i].title = title})


\* ------------------------------------------------------- initial states

\* Formula fields that agree with price x quantity and the change rate.
HoldingConsistent ==
    Holding(TRUE, NumberProp(3), NumberProp(4000), FormulaProp(600), FormulaProp(2000),
            NumberProp(0), NumberProp(2000), NumberProp(10))
\* Formula fields that carry their own values (daily profit -35.50).
HoldingFormula ==
    Holding(TRUE, NumberProp(2), RollupProp(1005), FormulaProp(-35500), FormulaProp(-125),
            NumberProp(2000), NumberProp(1900), NumberProp(50))
\* No formula columns: a text formula and an absent field; a null estimate.
HoldingNoFormula ==
    Holding(TRUE, NumberProp(1), NumberProp(2004), FormulaStringProp, AbsentProp,
            NullNumberProp, NumberProp(1500), NumberProp(-20))
HoldingZeroQty ==
    Holding(TRUE, NumberProp(0), NumberProp(5000), FormulaProp(700), FormulaProp(-300),
            NumberProp(1000), NumberProp(1000), NumberProp(10))
HoldingNegativeQty ==
    Holding(TRUE, NumberProp(-1), NumberProp(2500), FormulaProp(-45), FormulaProp(15),
            NumberProp(1000), NumberProp(1000), NumberProp(10))
\* The quantity is missing or is text.
HoldingNoQty ==
    Holding(TRUE, RichTextProp, NumberProp(3000), FormulaProp(55), FormulaProp(65),
            NumberProp(1000), NumberProp(1000), NumberProp(10))
HoldingMalformed ==
    Holding(FALSE, NumberProp(1), NumberProp(1000), FormulaProp(100), FormulaProp(100),
            NumberProp(1000), NumberProp(1000), NumberProp(10))

HoldingRows ==
    {HoldingConsistent, HoldingFormula, HoldingNoFormula, HoldingZeroQty,
     HoldingNegativeQty, HoldingNoQty, HoldingMalformed}

\* Every sequence over S of length at most n.
RECURSIVE SeqsUpTo(_, _)
SeqsUpTo(S, n) ==
    IF n = 0 THEN {<<>>}
    ELSE LET shorter == SeqsUpTo(S, n - 1)
         IN  shorter \cup {Append(q, x) : q \in {r \in shorter : Len(r) = n - 1}, x \in S}

\* Rows of the daily table made before the first run.
PrevRow == DailyRow(TitleOf(FirstDay - 1), NumberProp(0), NumberProp(0), NumberProp(100000), {})
PrevRowNull == DailyRow(TitleOf(FirstDay - 1), NumberProp(0), NumberProp(0), NullNumberProp, {})
TodayRow(links) == DailyRow(TitleOf(FirstDay), NumberProp(10), NumberProp(20), NumberProp(30), links)
OldRow == DailyRow(TitleOf(FirstDay - WEEK_DAYS - 1), NumberProp(0), NumberProp(0), NumberProp(50000), {1})
JunkRow == DailyRow(<<AT, -1>>, NumberProp(0), NumberProp(0), NumberProp(0), {1})

DailyTables ==
    {<<>>, <<PrevRow>>, <<PrevRowNull>>, <<OldRow, JunkRow, PrevRow>>}
    \cup {<<TodayRow(links)>> : links \in SUBSET TradeIds}
    \cup {<<PrevRow, TodayRow({1})>>, <<TodayRow({1}), TodayRow({})>>,
          <<JunkRow, OldRow, TodayRow({1})>>}

\* The trades tables: the first k trades are of the first day, the others of
\* the day before.
TradeTables ==
    {[t \in TradeIds |-> IF t <= k THEN FirstDay ELSE FirstDay - 1] : k \in 0 .. MaxTrades}

\* No call of update_daily_trades_relation yet.
NoRel == [date_str |-> <<>>, page_id |-> 0, ret |-> "", trade_records |-> <<>>,
          before |-> {}]

\* The locals of a run as it starts.
InitRun ==
    /\ pc = "fetch"
    /\ cursor = 0
    /\ pages = <<>>
    /\ idx = 1
    /\ summary = ZeroSummary
    /\ updated = 0
    /\ failed = 0
    /\ previous_total_profit = 0
    /\ existing = <<>>
    /\ rel = NoRel
    /\ week_records = <<>>
    /\ reqs = <<>>
    /\ relLog = <<>>

\* Either any holdings table in its last run, with no trades table, or one
\* holdings table with any daily table, trades table and configuration.
Init ==
    /\ today = FirstDay
    /\ upsertLog = <<>>
    /\ InitRun
    /\ \/ /\ holdingsTable \in SeqsUpTo(HoldingRows, MaxHoldings)
          /\ runs = MaxRuns
          /\ DAILY_DATA_DB_ID \in BOOLEAN
          /\ TRADES_DB_ID = FALSE
          /\ dailyTable \in {<<>>, <<PrevRow>>}
          /\ tradeDate = [t \in TradeIds |-> FirstDay]
       \/ /\ holdingsTable = <<HoldingFormula>>
          /\ runs = 1
          /\ DAILY_DATA_DB_ID \in BOOLEAN
          /\ TRADES_DB_ID \in BOOLEAN
          /\ dailyTable \in DailyTables
          /\ tradeDate \in TradeTables

\* -------------------------------------------------------- Paged Fetcher

\* Mutant: the loop stops after the first page.
FetchContinues_Never(data_has_more) == FALSE

\* `if not data.get("has_more"): break`
FetchContinues(data_has_more) == data_has_more

\* One iteration of the loop of list_holdings_pages.  A failed request
\* raises out of update_all_holdings_profits, which does not catch it.
FetchPage ==
    /\ pc = "fetch"
    /\ \E ok \in BOOLEAN :
        /\ reqs' = Append(reqs, Request("fetch", 0, "POST", "holdings", cursor, "query", ok))
        /\ IF ok
           THEN /\ pages' = pages \o HoldingsBatch(cursor)
                /\ cursor' = HoldingsNextCursor(cursor)
                /\ pc' = IF FetchContinues(HoldingsHasMore(cursor)) THEN "fetch" ELSE "calc"
           ELSE /\ pc' = "raised"
                /\ UNCHANGED fetchVars
    /\ UNCHANGED <<envVars, dailyTable, today, runs, loopVars, previous_total_profit,
                   existing, rel, week_records, relLog, upsertLog>>

\* ------------------------------------------------------------ Aggregator

\* Mutant: a row whose calculation raises ends the loop.
IndexAfterFailure_Abort(i) == Len(pages) + 1

\* The `except Exception` inside the loop counts the row as failed and the
\* loop goes on with the next holding.
IndexAfterFailure(i) == i + 1

\* One iteration of `for holding in holdings` of update_all_holdings_profits.
CalcRow ==
    /\ pc = "calc"
    /\ idx <= Len(pages)
    /\ IF CalculationRaises(pages[idx])
       THEN /\ failed' = failed + 1
            /\ UNCHANGED <<summary, updated>>
       ELSE LET profits == calculate_fund_profits(pages[idx])
            IN  /\ summary' =
                     [total_cost |-> summary.total_cost + profits.total_cost,
                      total_daily_profit |->
                          summary.total_daily_profit + profits.daily_profit,
                      total_holding_profit |->
                          summary.total_holding_profit + profits.holding_profit]
                /\ updated' = updated + 1
                /\ UNCHANGED failed
    /\ idx' = IF CalculationRaises(pages[idx]) THEN IndexAfterFailure(idx) ELSE idx + 1
    /\ UNCHANGED <<envVars, dailyTable, today, runs, pc, fetchVars, previous_total_profit,
                   existing, rel, week_records, reqs, relLog, upsertLog>>

\* The loop is over: the summary is printed and the daily step begins.
CalcDone ==
    /\ pc = "calc"
    /\ idx > Len(pages)
    /\ pc' = "previous"
    /\ UNCHANGED <<envVars, dailyTable, today, runs, fetchVars, loopVars,
                   previous_total_profit, existing, rel, week_records, reqs, relLog,
                   upsertLog>>

\* ---------------------------------------------------------- Daily Upsert

\* today_str and the arguments of create_or_update_daily_data.
today_str == TitleOf(today)
UpsertDailyProfit == round_decimal(summary.total_daily_profit)
UpsertTotalCost == round_decimal(summary.total_cost)

\* previous_date_str of get_previous_day_total_profit.
PreviousDateStr(current_date_str) == TitleOf(DateOf(StripAt(current_date_str)) - 1)

\* Mutant: the lookup is made although the daily table id is unset.
PreviousLookupSkipped_Never == FALSE

\* `if not DAILY_DATA_DB_ID: return 0.0`
PreviousLookupSkipped == ~DAILY_DATA_DB_ID

\* Where an exception of the daily step ends: the `except Exception` of
\* update_all_holdings_profits logs it and the function returns.
OuterCatch_Missing == "raised"

OuterCatch == "done"

\* get_previous_day_total_profit: a failed request is caught inside and
\* 0.0 is returned.
GetPreviousDayTotalProfit ==
    /\ pc = "previous"
    /\ IF PreviousLookupSkipped
       THEN /\ previous_total_profit' = 0
            /\ UNCHANGED reqs
       ELSE \E ok \in BOOLEAN :
            LET title == PreviousDateStr(today_str)
                results == DailyQueryTitle(title)
            IN  /\ reqs' = Append(reqs, Request("previous", 0, "POST", "daily", DateOf(StripAt(title)), "query", ok))
                /\ previous_total_profit' =
                     IF ok /\ results # <<>>
                     THEN safe_float(get_prop_number(dailyTable[results[1]].total_profit))
                     ELSE 0
    /\ pc' = "upsert_query"
    /\ UNCHANGED <<envVars, dailyTable, today, runs, fetchVars, loopVars, existing, rel,
                   week_records, relLog, upsertLog>>

\* create_or_update_daily_data up to the query for today's row.
UpsertQuery ==
    /\ pc = "upsert_query"
    /\ IF ~DAILY_DATA_DB_ID
       THEN /\ pc' = "week_query"
            /\ UNCHANGED <<existing, reqs>>
       ELSE \E ok \in BOOLEAN :
            /\ reqs' = Append(reqs, Request("upsert", 0, "POST", "daily", today, "query", ok))
            /\ IF ok
               THEN /\ existing' = DailyQueryTitle(today_str)
                    /\ pc' = "upsert_write"
               ELSE /\ pc' = OuterCatch
                    /\ UNCHANGED existing
    /\ UNCHANGED <<envVars, dailyTable, today, runs, fetchVars, loopVars,
                   previous_total_profit, rel, week_records, relLog, upsertLog>>

\* create_or_update_daily_data: the PATCH of the existing row or the POST of
\* a new one, then the call of update_daily_trades_relation(date_str, page_id).
UpsertWrite ==
    /\ pc = "upsert_write"
    /\ \E ok \in BOOLEAN :
        LET props == UpsertProps(today_str, UpsertDailyProfit, UpsertTotalCost,
                                 previous_total_profit)
            page_id == UpsertPageId(existing)
        IN  /\ reqs' = Append(reqs,
                         IF existing # <<>>
                         THEN Request("upsert", 0, "PATCH", "page", existing[1], "fields", ok)
                         ELSE Request("upsert", 0, "POST", "pages", 0, "fields", ok))
            /\ IF ok
               THEN /\ dailyTable' = DailyAfterUpsert(existing, props)
                    /\ rel' = [date_str |-> today_str, page_id |-> page_id,
                               ret |-> "upsert", trade_records |-> <<>>,
                               before |-> dailyTable'[page_id].relation]
                    /\ pc' = "rel_query"
               ELSE /\ pc' = OuterCatch
                    /\ UNCHANGED <<dailyTable, rel>>
    /\ UNCHANGED <<envVars, today, runs, fetchVars, loopVars, previous_total_profit,
                   existing, week_records, relLog, upsertLog>>


\* ---------------------------------------------------- Relation Reconciler

\* The fields of a daily row that the upsert writes.
RowFields(row) ==
    [title |-> row.title, daily_profit |-> row.daily_profit,
     total_cost |-> row.total_cost, total_profit |-> row.total_profit]

\* update_daily_trades_relation returns (it catches its own exceptions): the
\* caller goes on, create_or_update_daily_data to its end and then to
\* update_week_trades_relations, the weekly loop to its next record.
RelReturn(wrote, outcome) ==
    /\ relLog' = Append(relLog,
           [page_id |-> rel.page_id, date_str |-> rel.date_str, before |-> rel.before,
            after |-> dailyTable'[rel.page_id].relation,
            wrote |-> wrote, outcome |-> outcome, caller |-> rel.ret])
    /\ IF rel.ret = "upsert"
       THEN /\ pc' = "week_query"
            /\ upsertLog' = Append(upsertLog,
                   [date_str |-> rel.date_str,
                    daily_profit |-> UpsertDailyProfit,
                    total_cost |-> UpsertTotalCost,
                    previous_total_profit |-> previous_total_profit,
                    created |-> (existing = <<>>),
                    count |-> TitleCount(dailyTable', rel.date_str),
                    row |-> RowFields(dailyTable'[rel.page_id])])
       ELSE /\ pc' = "week_loop"
            /\ UNCHANGED upsertLog

\* target_date of update_daily_trades_relation.
TargetDate(date_str) == DateOf(StripAt(date_str))

\* update_daily_trades_relation up to the query of the trades table.
RelQuery ==
    /\ pc = "rel_query"
    /\ UNCHANGED dailyTable
    /\ IF ~TRADES_DB_ID
       THEN /\ RelReturn(FALSE, "skipped")
            /\ UNCHANGED <<rel, reqs>>
       ELSE \E ok \in BOOLEAN :
            /\ reqs' = Append(reqs,
                   Request("relation", Len(relLog) + 1, "POST", "trades", TargetDate(rel.date_str), "query", ok))
            /\ IF ok
               THEN LET trade_records == TradesQueryDate(TargetDate(rel.date_str))
                    IN  /\ rel' = [rel EXCEPT !.trade_records = trade_records]
                        /\ pc' = IF trade_records = <<>> THEN "rel_clear" ELSE "rel_get"
                        /\ UNCHANGED <<relLog, upsertLog>>
               ELSE /\ RelReturn(FALSE, "failed")
                    /\ UNCHANGED rel
    /\ UNCHANGED <<envVars, today, runs, fetchVars, loopVars, previous_total_profit,
                   existing, week_records>>

\* `if not trade_records`: the relation is cleared with a PATCH, whatever it holds.
RelClear ==
    /\ pc = "rel_clear"
    /\ \E ok \in BOOLEAN :
        /\ reqs' = Append(reqs, Request("relation", Len(relLog) + 1, "PATCH", "page", rel.page_id, "relation", ok))
        /\ dailyTable' = IF ok THEN [dailyTable EXCEPT ![rel.page_id].relation = {}]
                         ELSE dailyTable
        /\ RelReturn(TRUE, IF ok THEN "ok" ELSE "failed")
    /\ UNCHANGED <<envVars, today, runs, fetchVars, loopVars, previous_total_profit,
                   existing, rel, week_records>>

\* The GET of the daily row and the comparison of the two id sets.
RelGet ==
    /\ pc = "rel_get"
    /\ UNCHANGED dailyTable
    /\ \E ok \in BOOLEAN :
        /\ reqs' = Append(reqs, Request("relation", Len(relLog) + 1, "GET", "page", rel.page_id, "none", ok))
        /\ IF ok
           THEN LET current_trade_ids == dailyTable[rel.page_id].relation
                    target_trade_ids == SeqToSet(rel.trade_records)
                    to_add == target_trade_ids \ current_trade_ids
                    to_remove == current_trade_ids \ target_trade_ids
                IN  IF to_add # {} \/ to_remove # {}
                    THEN /\ pc' = "rel_patch"
                         /\ UNCHANGED <<relLog, upsertLog>>
                    ELSE RelReturn(FALSE, "ok")
           ELSE RelReturn(FALSE, "failed")
    /\ UNCHANGED <<envVars, today, runs, fetchVars, loopVars, previous_total_profit,
                   existing, rel, week_records>>

\* The PATCH that replaces the relation by the target ids.
RelPatch ==
    /\ pc = "rel_patch"
    /\ \E ok \in BOOLEAN :
        /\ reqs' = Append(reqs, Request("relation", Len(relLog) + 1, "PATCH", "page", rel.page_id, "relation", ok))
        /\ dailyTable' =
             IF ok
             THEN [dailyTable EXCEPT ![rel.page_id].relation = SeqToSet(rel.trade_records)]
             ELSE dailyTable
        /\ RelReturn(TRUE, IF ok THEN "ok" ELSE "failed")
    /\ UNCHANGED <<envVars, today, runs, fetchVars, loopVars, previous_total_profit,
                   existing, rel, week_records>>

\* ------------------------------------------------------------ weekly pass

\* week_records of update_week_trades_relations: of the first page of the
\* rows titled "@...", those whose title parses to a date of the window.
WeekRecords ==
    LET week_ago == today - WEEK_DAYS
        InWeek(i) ==
            LET title == dailyTable[i].title
            IN  /\ StartsWithAt(title)
                /\ IsIsoDate(StripAt(title))
                /\ week_ago <= DateOf(StripAt(title))
                /\ DateOf(StripAt(title)) <= today
        ids == SelectSeq(DailyQueryStartsWithAt, InWeek)
    IN  [k \in 1 .. Len(ids) |-> [page_id |-> ids[k], date_str |-> dailyTable[ids[k]].title]]

\* update_week_trades_relations up to its loop; a failed query is caught inside.
WeekQuery ==
    /\ pc = "week_query"
    /\ IF ~DAILY_DATA_DB_ID \/ ~TRADES_DB_ID
       THEN /\ pc' = "done"
            /\ UNCHANGED <<week_records, reqs>>
       ELSE \E ok \in BOOLEAN :
            /\ reqs' = Append(reqs, Request("week", 0, "POST", "daily", 0, "query", ok))
            /\ IF ok
               THEN /\ week_records' = WeekRecords
                    /\ pc' = "week_loop"
               ELSE /\ pc' = "done"
                    /\ UNCHANGED week_records
    /\ UNCHANGED <<envVars, dailyTable, today, runs, fetchVars, loopVars,
                   previous_total_profit, existing, rel, relLog, upsertLog>>

\* One iteration of `for record, date_str in week_records`, or its end.
WeekNext ==
    /\ pc = "week_loop"
    /\ IF week_records = <<>>
       THEN /\ pc' = "done"
            /\ UNCHANGED <<week_records, rel>>
       ELSE /\ rel' = [date_str |-> Head(week_records).date_str,
                       page_id |-> Head(week_records).page_id,
                       ret |-> "week", trade_records |-> <<>>,
                       before |-> dailyTable[Head(week_records).page_id].relation]
            /\ week_records' = Tail(week_records)
            /\ pc' = "rel_query"
    /\ UNCHANGED <<envVars, dailyTable, today, runs, fetchVars, loopVars,
                   previous_total_profit, existing, reqs, relLog, upsertLog>>

\* ------------------------------------------------------------------ runs

\* The script is started again, the same day or the day after.
Rerun ==
    /\ pc \in {"done", "raised"}
    /\ runs < MaxRuns
    /\ runs' = runs + 1
    /\ \E days \in {0, 1} : today' = today + days
    /\ pc' = "fetch"
    /\ cursor' = 0
    /\ pages' = <<>>
    /\ idx' = 1
    /\ summary' = ZeroSummary
    /\ updated' = 0
    /\ failed' = 0
    /\ previous_total_profit' = 0
    /\ existing' = <<>>
    /\ rel' = NoRel
    /\ week_records' = <<>>
    /\ reqs' = <<>>
    /\ relLog' = <<>>
    /\ UNCHANGED <<envVars, dailyTable, upsertLog>>

Next ==
    \/ FetchPage
    \/ CalcRow
    \/ CalcDone
    \/ GetPreviousDayTotalProfit
    \/ UpsertQuery
    \/ UpsertWrite
    \/ RelQuery
    \/ RelClear
    \/ RelGet
    \/ RelPatch
    \/ WeekQuery
    \/ WeekNext
    \/ Rerun

Spec == Init /\ [][Next]_vars


\* ===================================================== the properties

\* Two upserts have the same inputs.
SameUpsertInputs(a, b) ==
    /\ a.date_str = b.date_str
    /\ a.daily_profit = b.daily_profit
    /\ a.total_cost = b.total_cost
    /\ a.previous_total_profit = b.previous_total_profit

\* C1: the daily upsert is idempotent and keeps one row per day.  Of two
\* successive completed runs of create_or_update_daily_data with the same
\* date title, daily profit, total cost and previous total profit, the first
\* leaving one row of that title (no duplicate made outside the program), the
\* second creates nothing, leaves one row of that title, and the row's title,
\* daily profit, total cost and total profit are those the first run left.
C1_UpsertIdempotent ==
    \A i \in 1 .. Len(upsertLog) - 1 :
        LET first == upsertLog[i]
            second == upsertLog[i + 1]
        IN  (SameUpsertInputs(first, second) /\ first.count = 1)
            => /\ second.count = 1
               /\ ~second.created
               /\ second.row = first.row

\* C1 witness: the first run created today's row, the second run, with the
\* same inputs, has overwritten it.
C1_Witness ==
    /\ Len(upsertLog) = 2
    /\ SameUpsertInputs(upsertLog[1], upsertLog[2])
    /\ upsertLog[1].created
    /\ upsertLog[1].count = 1
    /\ upsertLog[2].row.total_profit = NumberProp(100000 - 35500)

\* C2 (as claimed): after every reconciliation that completed with all of
\* its remote calls answered, the relation field of the row is the set of
\* the ids of all the trade rows of that date.
C2_RelationEqualsAllTrades ==
    \A k \in 1 .. Len(relLog) :
        relLog[k].outcome = "ok"
        => relLog[k].after = AllTradesOn(TargetDate(relLog[k].date_str))

\* C3 (as claimed): a reconciliation whose desired link set, the ids of the
\* trade rows of the date, is the row's current link set issues no PATCH,
\* the empty set included.
C3_NoWriteWhenUnchanged ==
    \A k \in 1 .. Len(relLog) :
        AllTradesOn(TargetDate(relLog[k].date_str)) = relLog[k].before
        => ~relLog[k].wrote

\* The cumulative total profit of the first row titled `title`, 0 without
\* such a row (or without a number in it).
CumulativeOf(table, title) ==
    LET ids == {i \in 1 .. Len(table) : table[i].title = title}
    IN  IF ids = {} THEN 0
        ELSE LET first == CHOOSE i \in ids : \A j \in ids : i <= j
             IN  IF table[first].total_profit.number = {} THEN 0
                 ELSE TheValue(table[first].total_profit.number)

\* C4 (as claimed): the cumulative total profit written to the day's row is
\* the cumulative total profit of the row of the day before plus the day's
\* daily profit, the previous cumulative being 0 only without such a row.
C4_CumulativeChain ==
    \A i \in 1 .. Len(upsertLog) :
        LET u == upsertLog[i]
            day == DateOf(StripAt(u.date_str))
        IN  u.row.total_profit =
                NumberProp(CumulativeOf(dailyTable, TitleOf(day - 1)) + u.daily_profit)


\* The holdings the loop has visited so far, and those of them whose
\* calculation did not raise.
VisitedRows == SubSeq(pages, 1, idx - 1)
CountedRows == SelectSeq(VisitedRows, LAMBDA h : ~CalculationRaises(h))

\* The row carries a quantity, and it is above 0.
HasPositiveQuantity(h) == \E q \in get_prop_number(h.quantity) : q > 0

\* C5: a holding whose quantity is <= 0 (a missing or non-numeric quantity
\* counts as 0) adds nothing to any of the three sums, whatever its cost and
\* profit fields: at every point of the loop the sums are the sums of the
\* calculated metrics over the visited rows of quantity > 0 alone.
C5_NonPositiveQuantityExcluded ==
    LET positive == SelectSeq(CountedRows, HasPositiveQuantity)
    IN  /\ summary.total_cost =
             SumSeq([k \in 1 .. Len(positive) |-> calculate_fund_profits(positive[k]).total_cost])
        /\ summary.total_daily_profit =
             SumSeq([k \in 1 .. Len(positive) |-> calculate_fund_profits(positive[k]).daily_profit])
        /\ summary.total_holding_profit =
             SumSeq([k \in 1 .. Len(positive) |-> calculate_fund_profits(positive[k]).holding_profit])

\* C5 witness: the loop is over, it visited a row of quantity <= 0 whose
\* cost and profit fields are not 0, and a row that counts.
C5_Witness ==
    /\ pc = "previous"
    /\ \E k \in 1 .. Len(pages) : pages[k] \in {HoldingZeroQty, HoldingNegativeQty, HoldingNoQty}
    /\ \E k \in 1 .. Len(pages) : pages[k] = HoldingFormula
    /\ summary.total_cost = 1010

\* The requests of list_holdings_pages in this run.
FetchRequests == SelectSeq(reqs, LAMBDA r : r.op = "fetch")

\* C6: the Paged Fetcher sends its first request without a cursor and each
\* later one with the cursor of the response before it, goes on only after a
\* response that has more, sends at most one request per page (so it ends),
\* holds after each page exactly the rows before its cursor, and returns the
\* rows of the table in order, none dropped, none twice.
C6_PagedFetch ==
    LET f == FetchRequests
        n == Len(f)
    IN  /\ n >= 1 => f[1].arg = 0
        /\ \A i \in 2 .. n :
              /\ f[i - 1].ok
              /\ HoldingsHasMore(f[i - 1].arg)
              /\ f[i].arg = HoldingsNextCursor(f[i - 1].arg)
        /\ n <= Len(holdingsTable) \div HOLDINGS_PAGE_SIZE + 1
        /\ pc = "fetch" => pages = SubSeq(holdingsTable, 1, cursor)
        /\ pc \notin {"fetch", "raised"}
           => /\ pages = holdingsTable
              /\ n >= 1 /\ f[n].ok /\ ~HoldingsHasMore(f[n].arg)

\* C6 witness: a table of two pages has been fetched with two requests.
C6_Witness ==
    /\ pc = "calc"
    /\ Len(FetchRequests) = 2
    /\ Len(pages) = HOLDINGS_PAGE_SIZE + 1
    /\ pages = holdingsTable

\* Every request of the run so far was answered.
AllRequestsOk == \A i \in 1 .. Len(reqs) : reqs[i].ok

\* C7: without the daily table id a run sends no request to the daily table
\* or to a page of it, and reconciles no relation; with the daily table id
\* but without the trades table id it sends no request to the trades table
\* and writes no relation field, and a run whose requests are all answered
\* leaves a row of today's title with the run's aggregates; in neither case
\* does the run raise once the holdings are fetched.
C7_OptionalConfiguration ==
    /\ ~DAILY_DATA_DB_ID
       => /\ \A i \in 1 .. Len(reqs) : reqs[i].op = "fetch"
          /\ relLog = <<>>
          /\ upsertLog = <<>>
    /\ (DAILY_DATA_DB_ID /\ ~TRADES_DB_ID)
       => /\ \A i \in 1 .. Len(reqs) :
                reqs[i].path # "trades" /\ reqs[i].body # "relation"
          /\ \A k \in 1 .. Len(relLog) :
                relLog[k].outcome = "skipped" /\ relLog[k].after = relLog[k].before
          /\ (pc = "done" /\ AllRequestsOk)
             => \E i \in 1 .. Len(dailyTable) :
                   RowFields(dailyTable[i]) =
                       UpsertProps(today_str, UpsertDailyProfit, UpsertTotalCost,
                                   previous_total_profit)
    /\ (~DAILY_DATA_DB_ID \/ ~TRADES_DB_ID)
       => (pc = "raised" => ~reqs[Len(reqs)].ok /\ reqs[Len(reqs)].op = "fetch")

\* C7 witness: with only the trades table id unset the run is over, the
\* daily row was upserted and its reconciliation was skipped.
C7_Witness ==
    /\ DAILY_DATA_DB_ID /\ ~TRADES_DB_ID
    /\ pc = "done"
    /\ AllRequestsOk
    /\ Len(relLog) = 1 /\ relLog[1].outcome = "skipped"
    /\ \E i \in 1 .. Len(dailyTable) : dailyTable[i].title = today_str

\* C8: no failure of the daily step or of a reconciliation leaves
\* update_all_holdings_profits as an exception: a run that raised has sent
\* requests of the paged fetch only, and a run that has sent any other
\* request is either at a step that can be taken or has returned.
C8_DailyStepNeverRaises ==
    /\ pc = "raised" => \A i \in 1 .. Len(reqs) : reqs[i].op = "fetch"
    /\ (\E i \in 1 .. Len(reqs) : reqs[i].op # "fetch" /\ ~reqs[i].ok)
       => pc \in {"upsert_query", "upsert_write", "rel_query", "rel_clear", "rel_get",
                  "rel_patch", "week_query", "week_loop", "done"}

\* C8 witness: the write of the daily row failed and the run returned.
C8_Witness ==
    /\ pc = "done"
    /\ \E i \in 1 .. Len(reqs) :
          reqs[i].op = "upsert" /\ reqs[i].body = "fields" /\ ~reqs[i].ok

\* Two requests belong to the same operation: the paged fetch, the daily
\* upsert with the previous-day lookup that feeds it, one reconciliation, the
\* query of the weekly pass.
SameOperation(a, b) ==
    \/ a.op = "fetch" /\ b.op = "fetch"
    \/ a.op \in {"previous", "upsert"} /\ b.op \in {"previous", "upsert"}
    \/ a.op = "relation" /\ b.op = "relation" /\ a.call = b.call
    \/ a.op = "week" /\ b.op = "week"

\* C9 (as claimed): a failed remote call is fatal to the operation that
\* issued it: that operation sends no request after it (no retry, no further
\* call, no write of a value put in its place).
C9_FailureIsFatal ==
    \A i \in 1 .. Len(reqs) : \A j \in 1 .. Len(reqs) :
        (i < j /\ ~reqs[i].ok) => ~SameOperation(reqs[i], reqs[j])

\* The number a property carries, 0 when it carries none.
FieldNumber(prop) == IF prop.number = {} THEN 0 ELSE TheValue(prop.number)

\* v to 2 decimals, half up: the multiple of 0.01 nearest to v, the one
\* farther from 0 when two are as near.
HalfUp2(v) ==
    CHOOSE r \in (v - 5) .. (v + 5) :
        /\ r % 10 = 0
        /\ \/ Abs(r - v) < 5
           \/ Abs(r - v) = 5 /\ Abs(r) > Abs(v)

\* The metrics of the spec's Profit Calculator.
SpecCurrentPrice(h) ==
    IF FieldNumber(h.gsz) > 0 THEN FieldNumber(h.gsz) ELSE FieldNumber(h.dwjz)
SpecMarketValue(h) == SpecCurrentPrice(h) * FieldNumber(h.quantity)
SpecDailyProfit(h) == (SpecMarketValue(h) * FieldNumber(h.gszzl)) \div 100
SpecHoldingProfit(h) == SpecMarketValue(h) - FieldNumber(h.cost)

FailedRows == SelectSeq(VisitedRows, CalculationRaises)

\* C11: a row whose calculation raises does not end the batch.  The loop
\* visits the fetched rows one by one in order: at every point each row
\* before the index has been counted once, as failed when its calculation
\* raised and as updated otherwise, the three sums are those of the rows
\* that did not raise, and once the loop is over every fetched row has been
\* visited and updated + failed = total.
C11_RowFailuresDoNotAbort ==
    /\ idx \in 1 .. Len(pages) + 1
    /\ failed = Len(FailedRows)
    /\ updated = Len(CountedRows)
    /\ updated + failed = idx - 1
    /\ summary.total_cost =
         SumSeq([k \in 1 .. Len(CountedRows) |->
                    calculate_fund_profits(CountedRows[k]).total_cost])
    /\ summary.total_daily_profit =
         SumSeq([k \in 1 .. Len(CountedRows) |->
                    calculate_fund_profits(CountedRows[k]).daily_profit])
    /\ summary.total_holding_profit =
         SumSeq([k \in 1 .. Len(CountedRows) |->
                    calculate_fund_profits(CountedRows[k]).holding_profit])
    /\ pc \notin {"fetch", "calc", "raised"}
       => /\ VisitedRows = pages
          /\ updated + failed = Len(pages)

\* C11 witness: the loop is over; the first row raised and the two rows
\* after it were counted.
C11_Witness ==
    /\ pc = "previous"
    /\ pages = <<HoldingMalformed, HoldingFormula, HoldingConsistent>>
    /\ failed = 1
    /\ updated = 2
    /\ summary.total_daily_profit = -35500 + 600

\* The reconciliations of this run called by update_week_trades_relations.
WeekCalls == SelectSeq(relLog, LAMBDA e : e.caller = "week")

\* The title of row i is '@' and a date of the window [today - 6, today].
InWeekWindow(i) ==
    LET title == dailyTable[i].title
    IN  /\ StartsWithAt(title)
        /\ IsIsoDate(StripAt(title))
        /\ today - WEEK_DAYS <= DateOf(StripAt(title))
        /\ DateOf(StripAt(title)) <= today

\* C12 (as claimed): once a weekly pass whose query was answered is over,
\* the reconciler has been called once for every daily row whose title is
\* '@' and a date of the window, and for no other row, whether or not a
\* call failed; and no relation write was sent to a row outside the window.
C12_WeeklyPass ==
    (/\ pc = "done"
     /\ \E i \in 1 .. Len(reqs) : reqs[i].op = "week" /\ reqs[i].ok)
    => /\ \A i \in 1 .. Len(dailyTable) :
             InWeekWindow(i)
             => Cardinality({k \in 1 .. Len(WeekCalls) : WeekCalls[k].page_id = i}) = 1
       /\ \A k \in 1 .. Len(WeekCalls) : InWeekWindow(WeekCalls[k].page_id)
       /\ \A i \in 1 .. Len(reqs) :
             (reqs[i].body = "relation" /\ reqs[i].op = "relation")
             => InWeekWindow(reqs[i].arg)

=============================================================================
